---- MODULE Spec2Model ----
(***************************************************************************)
(* A model of src/src/Schema.ts: the Schema table descriptor, its          *)
(* append operations and its SQL text generation methods.                  *)
(*                                                                         *)
(* JavaScript strings are TLA+ strings (TLC evaluates Len, SubSeq and \o   *)
(* on them).  A JavaScript value of type string | number | boolean | null  *)
(* | undefined is a record [t, s, n, b] whose tag t says which of the      *)
(* payload fields is meaningful.  JavaScript arrays are objects with       *)
(* identity: they live in a heap and are held by reference.                *)
(***************************************************************************)
EXTENDS Integers, Sequences, FiniteSets, TLC

(***************************************************************************)
(* JavaScript values                                                       *)
(***************************************************************************)
Undefined == [t |-> "undefined", s |-> "", n |-> 0, b |-> FALSE]

Null == [t |-> "null", s |-> "", n |-> 0, b |-> FALSE]

Str(x) == [t |-> "string", s |-> x, n |-> 0, b |-> FALSE]

Num(x) == [t |-> "number", s |-> "", n |-> x, b |-> FALSE]

Bool(x) == [t |-> "boolean", s |-> "", n |-> 0, b |-> x]

\* JavaScript truthiness, as used by `a || b`, `a ? b : c` and `if (a)`.
Truthy(v) ==
    CASE v.t = "string" -> v.s # ""
      [] v.t = "number" -> v.n # 0
      [] v.t = "boolean" -> v.b
      [] OTHER -> FALSE

\* Number.prototype.toString for integers.
Digits == "0123456789"

RECURSIVE NatToString(_)
NatToString(n) ==
    IF n < 10 THEN SubSeq(Digits, n + 1, n + 1)
    ELSE NatToString(n \div 10) \o SubSeq(Digits, (n % 10) + 1, (n % 10) + 1)

IntToString(n) == IF n < 0 THEN "-" \o NatToString(0 - n) ELSE NatToString(n)

\* String(v) and template-literal interpolation `${v}`.
JsString(v) ==
    CASE v.t = "string" -> v.s
      [] v.t = "number" -> IntToString(v.n)
      [] v.t = "boolean" -> (IF v.b THEN "true" ELSE "false")
      [] v.t = "null" -> "null"
      [] OTHER -> "undefined"

(***************************************************************************)
(* String.prototype methods                                                *)
(***************************************************************************)
UpperLetters == "ABCDEFGHIJKLMNOPQRSTUVWXYZ"

LowerLetters == "abcdefghijklmnopqrstuvwxyz"

IndexIn(c, letters) ==
    IF \E i \in 1..Len(letters) : SubSeq(letters, i, i) = c
    THEN CHOOSE i \in 1..Len(letters) : SubSeq(letters, i, i) = c
    ELSE 0

MapChar(c, from, to) ==
    LET i == IndexIn(c, from) IN IF i = 0 THEN c ELSE SubSeq(to, i, i)

RECURSIVE toLowerCase(_)
toLowerCase(str) ==
    IF str = "" THEN ""
    ELSE MapChar(SubSeq(str, 1, 1), UpperLetters, LowerLetters)
             \o toLowerCase(SubSeq(str, 2, Len(str)))

RECURSIVE toUpperCase(_)
toUpperCase(str) ==
    IF str = "" THEN ""
    ELSE MapChar(SubSeq(str, 1, 1), LowerLetters, UpperLetters)
             \o toUpperCase(SubSeq(str, 2, Len(str)))

\* str.replace(/c/g, rep) for a one-character pattern c.
RECURSIVE replaceAll(_, _, _)
replaceAll(str, c, rep) ==
    IF str = "" THEN ""
    ELSE (IF SubSeq(str, 1, 1) = c THEN rep ELSE SubSeq(str, 1, 1))
             \o replaceAll(SubSeq(str, 2, Len(str)), c, rep)

startsWith(str, prefix) ==
    Len(str) >= Len(prefix) /\ SubSeq(str, 1, Len(prefix)) = prefix

\* str.substring(start), start a code-unit offset counted from 0.
substring(str, start) == SubSeq(str, start + 1, Len(str))

\* Array.prototype.join
RECURSIVE join(_, _)
join(strs, sep) ==
    IF Len(strs) = 0 THEN ""
    ELSE IF Len(strs) = 1 THEN strs[1]
    ELSE strs[1] \o sep \o join(Tail(strs), sep)

\* Array.prototype.filter with the predicate given as the set of kept indices.
RECURSIVE filterSeq(_, _, _)
filterSeq(arr, keep, i) ==
    IF i > Len(arr) THEN <<>>
    ELSE (IF i \in keep THEN <<arr[i]>> ELSE <<>>) \o filterSeq(arr, keep, i + 1)

(***************************************************************************)
(* Schema: projection helpers.  `this` is a descriptor seen with its       *)
(* arrays read: [tableName, alias, columns, constraints].                  *)
(*   Column     = [name, sqlType, primaryKey, nullable, autoIncrement,     *)
(*                 defaultValue, hasEnumValues, enumValues]                *)
(*   enum entry = [value, label]                                           *)
(*   ForeignKey = [localColumn, referencedTable, referencedColumn,         *)
(*                 onDelete, onUpdate]                                     *)
(*   Filter     = [hasAlias, alias, column, operator, value]               *)
(***************************************************************************)
\* Object.prototype.hasOwnProperty.call(data, key): data is [own, proto], the
\* object's own keys and the keys it only inherits.
hasOwnProperty(data, key) == key \in data.own

getAlias(this) == this.alias

getColumnAliasesNoFilter(this, includePrimary) ==
    [i \in 1..Len(this.columns) |-> getAlias(this) \o "_" \o this.columns[i].name]

getColumnAliases(this, includePrimary) ==
    LET alias == getAlias(this)
        kept == filterSeq(this.columns,
                    {i \in 1..Len(this.columns) :
                        includePrimary \/ ~this.columns[i].primaryKey}, 1)
    IN  [i \in 1..Len(kept) |-> alias \o "_" \o kept[i].name]

getColumnNames(this, includePrimary) ==
    LET alias == getAlias(this)
        kept == filterSeq(this.columns,
                    {i \in 1..Len(this.columns) :
                        includePrimary \/ ~this.columns[i].primaryKey}, 1)
    IN  [i \in 1..Len(kept) |-> alias \o "." \o kept[i].name]

\* The first column marked primary key, or null.
getPrimaryKey(this, useAlias) ==
    LET pks == {i \in 1..Len(this.columns) : this.columns[i].primaryKey}
    IN  IF pks = {} THEN Null
        ELSE LET first == CHOOSE i \in pks : \A j \in pks : i <= j
             IN  Str(getAlias(this) \o (IF useAlias THEN "_" ELSE ".")
                         \o this.columns[first].name)

getTableName(this, useSql) ==
    IF useSql THEN toLowerCase(this.tableName) ELSE this.tableName

aliasToColumnNameKeepsSeparator(this, aliasColumn) ==
    LET prefix == getAlias(this) \o "_"
    IN  IF ~startsWith(aliasColumn, prefix) THEN aliasColumn
        ELSE substring(aliasColumn, Len(getAlias(this)))

aliasToColumnName(this, aliasColumn) ==
    LET prefix == getAlias(this) \o "_"
    IN  IF ~startsWith(aliasColumn, prefix) THEN aliasColumn
        ELSE substring(aliasColumn, Len(prefix))

(***************************************************************************)
(* Schema.enumExpression and getColumnFields                               *)
(***************************************************************************)
\* line 245: the literal an enum value is compared with.
valLiteral(ev) ==
    IF ev.value.t = "number" THEN JsString(ev.value)
    ELSE "'" \o replaceAll(JsString(ev.value), "'", "''") \o "'"

\* line 246, second branch: the label of an entry that carries none.
fallbackLabel(ev) ==
    "Value \"" \o replaceAll(JsString(ev.value), "\"", "\\\"") \o "\""

\* line 246: the text placed between the quotes after THEN.
enumLabel(ev) ==
    IF Truthy(ev.label) THEN replaceAll(JsString(ev.label), "'", "''")
    ELSE fallbackLabel(ev)

whenThen(this, col, ev) ==
    "WHEN " \o getAlias(this) \o "." \o col.name \o " = " \o valLiteral(ev)
        \o " THEN '" \o enumLabel(ev) \o "'"

enumExpressionNoParens(this, col) ==
    IF ~col.hasEnumValues THEN Null
    ELSE LET colRef == getAlias(this) \o "." \o col.name
             whenThens == join([i \in 1..Len(col.enumValues) |->
                                   whenThen(this, col, col.enumValues[i])], " ")
         IN  Str("CASE " \o whenThens \o " ELSE 'Value \"' || " \o colRef
                     \o " || '\"' END")

enumExpression(this, col) ==
    IF ~col.hasEnumValues THEN Null
    ELSE LET colRef == getAlias(this) \o "." \o col.name
             whenThens == join([i \in 1..Len(col.enumValues) |->
                                   whenThen(this, col, col.enumValues[i])], " ")
         IN  Str("(CASE " \o whenThens \o " ELSE 'Value \"' || " \o colRef
                     \o " || '\"' END)")

\* lines 102-108: the select-expression of one column.
columnField(this, col, useLabels) ==
    LET alias == getAlias(this)
    IN  IF useLabels /\ col.hasEnumValues
        THEN JsString(enumExpression(this, col)) \o " AS \"" \o alias \o "_"
                 \o col.name \o "_label\""
        ELSE alias \o "." \o col.name \o " AS \"" \o alias \o "_" \o col.name \o "\""

getColumnFields(this, includePrimary, useLabels) ==
    LET kept == filterSeq(this.columns,
                    {i \in 1..Len(this.columns) :
                        includePrimary \/ ~this.columns[i].primaryKey}, 1)
    IN  [i \in 1..Len(kept) |-> columnField(this, kept[i], useLabels)]

(***************************************************************************)
(* DDL                                                                     *)
(***************************************************************************)
\* lines 134-137: the DEFAULT part of a column definition.
defaultClause(col) ==
    IF col.defaultValue.t = "undefined" THEN ""
    ELSE IF col.defaultValue.t = "string"
         THEN " DEFAULT '" \o replaceAll(col.defaultValue.s, "'", "''") \o "'"
         ELSE " DEFAULT " \o JsString(col.defaultValue)

\* lines 130-138
colDef(col) ==
    col.name \o " " \o (IF Truthy(col.sqlType) THEN col.sqlType.s ELSE "text")
        \o (IF col.primaryKey THEN " PRIMARY KEY" ELSE "")
        \o (IF col.nullable THEN " NULL" ELSE "")
        \o (IF col.autoIncrement THEN " GENERATED ALWAYS AS IDENTITY" ELSE "")
        \o defaultClause(col)

sqlCreateTable(this) ==
    LET table == getTableName(this, TRUE)
        columnsSql == join([i \in 1..Len(this.columns) |-> colDef(this.columns[i])], ", ")
    IN  "CREATE TABLE IF NOT EXISTS " \o table \o " (" \o columnsSql \o ");"

\* line 150
allowedValue(ev) ==
    IF ev.value.t = "number" THEN JsString(ev.value)
    ELSE "'" \o replaceAll(JsString(ev.value), "'", "''") \o "'"

\* lines 148-157: the block of one enum column.
enumConstraintSql(this, col) ==
    LET table == getTableName(this, TRUE)
        constraintName == table \o "_" \o col.name \o "_enum_chk"
        allowedValues == join([i \in 1..Len(col.enumValues) |->
                                  allowedValue(col.enumValues[i])], ", ")
    IN  join(<< "DO $$", "BEGIN", "  IF NOT EXISTS (",
                "    SELECT 1 FROM pg_constraint c",
                "    JOIN pg_class t ON c.conrelid = t.oid",
                "    WHERE lower(c.conname) = lower('" \o constraintName
                    \o "') AND t.relname = '" \o table \o "'",
                "  ) THEN",
                "    ALTER TABLE " \o table \o " ADD CONSTRAINT " \o constraintName
                    \o " CHECK (" \o col.name \o " IN (" \o allowedValues \o "));",
                "  END IF;", "END", "$$;" >>, "\n")

sqlCreateEnumConstraints(this) ==
    LET kept == filterSeq(this.columns,
                    {i \in 1..Len(this.columns) : this.columns[i].hasEnumValues}, 1)
    IN  [i \in 1..Len(kept) |-> enumConstraintSql(this, kept[i])]

\* lines 168-181: the block of one foreign key.
foreignKeySql(this, fk) ==
    LET table == getTableName(this, TRUE)
        constraintName == table \o "_" \o fk.localColumn \o "_fk"
        refTable == toLowerCase(fk.referencedTable)
        actions == (IF Truthy(fk.onDelete) THEN <<"ON DELETE " \o fk.onDelete.s>> ELSE <<>>)
                   \o (IF Truthy(fk.onUpdate) THEN <<"ON UPDATE " \o fk.onUpdate.s>> ELSE <<>>)
        actionSql == IF Len(actions) # 0 THEN " " \o join(actions, " ") ELSE ""
    IN  join(<< "DO $$", "BEGIN", "  IF NOT EXISTS (",
                "    SELECT 1 FROM pg_constraint c",
                "    JOIN pg_class t ON c.conrelid = t.oid",
                "    WHERE lower(c.conname) = lower('" \o constraintName
                    \o "') AND t.relname = '" \o table \o "'",
                "  ) THEN",
                "    ALTER TABLE " \o table \o " ADD CONSTRAINT " \o constraintName
                    \o " FOREIGN KEY (" \o fk.localColumn \o ") REFERENCES " \o refTable
                    \o "(" \o fk.referencedColumn \o ")" \o actionSql \o ";",
                "  END IF;", "END", "$$;" >>, "\n")

sqlCreateTableConstraints(this) ==
    [i \in 1..Len(this.constraints) |-> foreignKeySql(this, this.constraints[i])]

sqlTableDrop(this) == "DROP TABLE IF EXISTS " \o getTableName(this, TRUE) \o ";"

(***************************************************************************)
(* DML                                                                     *)
(***************************************************************************)
\* lines 256-274: the condition of one filter.
whereConditionKeepsOperator(this, f) ==
    LET alias == getAlias(this)
        colRef == IF f.hasAlias THEN alias \o "." \o aliasToColumnName(this, f.alias)
                  ELSE alias \o "." \o f.column
        operator == IF Truthy(f.operator) THEN f.operator.s ELSE "="
    IN  IF f.value.t = "null"
        THEN colRef \o " " \o operator \o " NULL"
        ELSE LET literal == IF f.value.t = "number" THEN JsString(f.value)
                            ELSE IF f.value.t = "boolean"
                                 THEN (IF f.value.b THEN "TRUE" ELSE "FALSE")
                                 ELSE "'" \o replaceAll(JsString(f.value), "'", "''") \o "'"
             IN  colRef \o " " \o operator \o " " \o literal

whereCondition(this, f) ==
    LET alias == getAlias(this)
        colRef == IF f.hasAlias THEN alias \o "." \o aliasToColumnName(this, f.alias)
                  ELSE alias \o "." \o f.column
        operator == IF Truthy(f.operator) THEN f.operator.s ELSE "="
    IN  IF f.value.t = "null"
        THEN LET op == IF toUpperCase(operator) = "IS NOT" THEN "IS NOT" ELSE "IS"
             IN  colRef \o " " \o op \o " NULL"
        ELSE LET literal == IF f.value.t = "number" THEN JsString(f.value)
                            ELSE IF f.value.t = "boolean"
                                 THEN (IF f.value.b THEN "TRUE" ELSE "FALSE")
                                 ELSE "'" \o replaceAll(JsString(f.value), "'", "''") \o "'"
             IN  colRef \o " " \o operator \o " " \o literal

\* filter is [t, items]: t = "undefined" (argument absent), "object" (one
\* filter, items = <<f>>) or "array" (items the array's elements).
whereClause(this, filter) ==
    IF filter.t = "undefined" THEN ""
    ELSE LET filters == filter.items
             conditions == [i \in 1..Len(filters) |-> whereCondition(this, filters[i])]
         IN  " WHERE " \o join(conditions, " AND ")

sqlSelect(this, useLabels, filter) ==
    LET fields == join(getColumnFields(this, TRUE, useLabels), ", ")
        table == getTableName(this, TRUE)
        alias == getAlias(this)
    IN  "SELECT " \o fields \o " FROM " \o table \o " AS " \o alias
            \o whereClause(this, filter)

sqlInsertByBareName(this, data) ==
    LET table == getTableName(this, TRUE)
        alias == getAlias(this)
        kept == filterSeq(this.columns,
                    {i \in 1..Len(this.columns) :
                        hasOwnProperty(data, this.columns[i].name)}, 1)
        columns == [i \in 1..Len(kept) |-> alias \o "." \o kept[i].name]
        placeholders == [i \in 1..Len(kept) |-> "$" \o alias \o "_" \o kept[i].name]
    IN  IF Len(columns) = 0 THEN ""
        ELSE "INSERT INTO " \o table \o " AS " \o alias \o " (" \o join(columns, ", ")
                 \o ") VALUES (" \o join(placeholders, ", ") \o ")"

sqlInsert(this, data) ==
    LET table == getTableName(this, TRUE)
        alias == getAlias(this)
        kept == filterSeq(this.columns,
                    {i \in 1..Len(this.columns) :
                        hasOwnProperty(data, alias \o "_" \o this.columns[i].name)}, 1)
        columns == [i \in 1..Len(kept) |-> alias \o "." \o kept[i].name]
        placeholders == [i \in 1..Len(kept) |-> "$" \o alias \o "_" \o kept[i].name]
    IN  IF Len(columns) = 0 THEN ""
        ELSE "INSERT INTO " \o table \o " AS " \o alias \o " (" \o join(columns, ", ")
                 \o ") VALUES (" \o join(placeholders, ", ") \o ")"

sqlUpdateSetsPrimaryKey(this, data) ==
    LET table == getTableName(this, TRUE)
        alias == getAlias(this)
        kept == filterSeq(this.columns,
                    {i \in 1..Len(this.columns) :
                        hasOwnProperty(data, this.columns[i].name)}, 1)
        setClauses == [i \in 1..Len(kept) |->
                          alias \o "." \o kept[i].name \o " = $" \o alias \o "_" \o kept[i].name]
        pkField == getPrimaryKey(this, FALSE)
        pkPlaceholder == "$" \o JsString(getPrimaryKey(this, TRUE))
    IN  "UPDATE " \o table \o " AS " \o alias \o " SET " \o join(setClauses, ", ")
            \o " WHERE " \o JsString(pkField) \o " = " \o pkPlaceholder

sqlUpdate(this, data) ==
    LET table == getTableName(this, TRUE)
        alias == getAlias(this)
        kept == filterSeq(this.columns,
                    {i \in 1..Len(this.columns) :
                        /\ hasOwnProperty(data, this.columns[i].name)
                        /\ ~this.columns[i].primaryKey}, 1)
        setClauses == [i \in 1..Len(kept) |->
                          alias \o "." \o kept[i].name \o " = $" \o alias \o "_" \o kept[i].name]
        pkField == getPrimaryKey(this, FALSE)
        pkPlaceholder == "$" \o JsString(getPrimaryKey(this, TRUE))
    IN  "UPDATE " \o table \o " AS " \o alias \o " SET " \o join(setClauses, ", ")
            \o " WHERE " \o JsString(pkField) \o " = " \o pkPlaceholder

sqlDelete(this, filter) ==
    LET table == getTableName(this, TRUE)
        alias == getAlias(this)
    IN  "DELETE FROM " \o table \o " AS " \o alias \o whereClause(this, filter)

(***************************************************************************)
(* State                                                                   *)
(*   colHeap, conHeap  the Column[] and ForeignKey[] arrays that exist;    *)
(*                     an array is named by its index                      *)
(*   objs              the Schema instances: [tableName, alias, columns,   *)
(*                     constraints], the last two being array references   *)
(*   callerCols, callerCons  the arrays the caller created and holds       *)
(*   call              the last method call: [op, self, arg, ret]          *)
(***************************************************************************)
VARIABLES colHeap, conHeap, objs, callerCols, callerCons, call

vars == <<colHeap, conHeap, objs, callerCols, callerCons, call>>

\* Bounds of the model.
MaxSchemas == 2

MaxLen == 2

MaxCols == 2

MaxFilters == 2

SeqsUpTo(S, n) == UNION {[1..k -> S] : k \in 0..n}

Column(name, sqlType, primaryKey, nullable, autoIncrement, defaultValue, hasEnumValues, enumValues) ==
    [name |-> name, sqlType |-> sqlType, primaryKey |-> primaryKey,
     nullable |-> nullable, autoIncrement |-> autoIncrement,
     defaultValue |-> defaultValue, hasEnumValues |-> hasEnumValues,
     enumValues |-> enumValues]

EnumValue(value, label) == [value |-> value, label |-> label]

ForeignKey(localColumn, referencedTable, referencedColumn, onDelete, onUpdate) ==
    [localColumn |-> localColumn, referencedTable |-> referencedTable,
     referencedColumn |-> referencedColumn, onDelete |-> onDelete,
     onUpdate |-> onUpdate]

Filter(hasAlias, alias, column, operator, value) ==
    [hasAlias |-> hasAlias, alias |-> alias, column |-> column,
     operator |-> operator, value |-> value]

\* lines 65-75: the instance a constructor call leaves, its arrays by reference.
\* alias is a JavaScript value (undefined when the argument is absent).
SchemaNew(tableName, alias, columnsRef, constraintsRef) ==
    [tableName |-> tableName,
     alias |-> toLowerCase(IF Truthy(alias) THEN alias.s ELSE tableName),
     columns |-> columnsRef,
     constraints |-> constraintsRef]

\* The instance o with its arrays read.
This(o) ==
    [tableName |-> objs[o].tableName, alias |-> objs[o].alias,
     columns |-> colHeap[objs[o].columns],
     constraints |-> conHeap[objs[o].constraints]]

NoCall == [op |-> "none", self |-> 0, arg |-> <<>>, ret |-> <<>>]

Call(op, self, arg, ret) == [op |-> op, self |-> self, arg |-> arg, ret |-> ret]

(***************************************************************************)
(* Inputs                                                                  *)
(***************************************************************************)
ColId == Column("id", Str("uuid"), TRUE, FALSE, FALSE, Undefined, FALSE, <<>>)

ColName == Column("name", Undefined, FALSE, FALSE, FALSE, Str("O'Brien"), FALSE, <<>>)

ColStatus ==
    Column("status", Str("smallint"), FALSE, FALSE, FALSE, Undefined, TRUE,
           <<EnumValue(Num(0), Str("Off")), EnumValue(Num(1), Str("On"))>>)

ColKind ==
    Column("kind", Str("text"), FALSE, TRUE, FALSE, Undefined, TRUE,
           <<EnumValue(Str("a'b"), Undefined), EnumValue(Str("q\"r"), Str("")),
             EnumValue(Num(-2), Str("it's"))>>)

ColMtId == Column("mt_id", Str(""), TRUE, FALSE, TRUE, Num(0), FALSE, <<>>)

ColFlag == Column("flag", Str("boolean"), FALSE, FALSE, FALSE, Bool(TRUE), TRUE, <<>>)

FkOwner == ForeignKey("owner", "Users", "id", Str("CASCADE"), Str("SET NULL"))

\* <<tableName, alias argument>>
TableArgs ==
    { <<"MyTable", Str("mt")>>, <<"MyTable", Undefined>>, <<"Tbl", Str("MT")>>,
      <<"T", Str("")>> }

(***************************************************************************)
(* Construction and the append operations (specification Spec)             *)
(***************************************************************************)
\* Inputs of Spec.
SpecColumns == {ColId, ColName}

SpecConstraints == {FkOwner}

SpecTableArgs == { <<"MyTable", Str("mt")>> }

\* The caller has built one array of columns and one of foreign keys and holds
\* them; no descriptor exists yet.
Init ==
    /\ \E cols \in SeqsUpTo(SpecColumns, 1) : colHeap = <<cols>>
    /\ \E cons \in SeqsUpTo(SpecConstraints, 1) : conHeap = <<cons>>
    /\ objs = <<>>
    /\ callerCols = {1}
    /\ callerCons = {1}
    /\ call = NoCall

\* new Schema(tableName, alias, columns, constraints); colsArg and consArg are
\* 0 (argument absent: the instance keeps the array of its field initializer)
\* or a reference to the caller's array, which the instance stores as it is.
Construct(tableName, alias, colsArg, consArg) ==
    /\ Len(objs) < MaxSchemas
    /\ LET colsRef == IF colsArg = 0 THEN Len(colHeap) + 1 ELSE colsArg
           consRef == IF consArg = 0 THEN Len(conHeap) + 1 ELSE consArg
       IN  /\ colHeap' = IF colsArg = 0 THEN Append(colHeap, <<>>) ELSE colHeap
           /\ conHeap' = IF consArg = 0 THEN Append(conHeap, <<>>) ELSE conHeap
           /\ objs' = Append(objs, SchemaNew(tableName, alias, colsRef, consRef))
           /\ call' = Call("constructor", Len(objs) + 1, <<>>, Len(objs) + 1)
    /\ UNCHANGED <<callerCols, callerCons>>

\* o.addColumn(column): items are the columns pushed, <<c>> for a single
\* column and the elements of the array for an array argument.
addColumn(o, items) ==
    /\ Len(colHeap[objs[o].columns]) + Len(items) <= MaxLen
    /\ colHeap' = [colHeap EXCEPT ![objs[o].columns] = @ \o items]
    /\ call' = Call("addColumn", o, items, o)
    /\ UNCHANGED <<conHeap, objs, callerCols, callerCons>>

\* o.addConstraint(constraint), as addColumn.
addConstraint(o, items) ==
    /\ Len(conHeap[objs[o].constraints]) + Len(items) <= MaxLen
    /\ conHeap' = [conHeap EXCEPT ![objs[o].constraints] = @ \o items]
    /\ call' = Call("addConstraint", o, items, o)
    /\ UNCHANGED <<colHeap, objs, callerCols, callerCons>>

(***************************************************************************)
(* Generation methods: each call reads the descriptor and records its      *)
(* arguments and result in call; nothing else changes.                     *)
(***************************************************************************)
Reads(op, o, arg, ret) ==
    /\ call' = Call(op, o, arg, ret)
    /\ UNCHANGED <<colHeap, conHeap, objs, callerCols, callerCons>>

GetAlias(o) == Reads("getAlias", o, <<>>, getAlias(This(o)))

GetTableName(o, useSql) ==
    Reads("getTableName", o, [useSql |-> useSql], getTableName(This(o), useSql))

GetColumnAliases(o, includePrimary) ==
    Reads("getColumnAliases", o, [includePrimary |-> includePrimary],
          getColumnAliases(This(o), includePrimary))

GetColumnNames(o, includePrimary) ==
    Reads("getColumnNames", o, [includePrimary |-> includePrimary],
          getColumnNames(This(o), includePrimary))

GetColumnFields(o, includePrimary, useLabels) ==
    Reads("getColumnFields", o,
          [includePrimary |-> includePrimary, useLabels |-> useLabels],
          getColumnFields(This(o), includePrimary, useLabels))

GetPrimaryKey(o, useAlias) ==
    Reads("getPrimaryKey", o, [useAlias |-> useAlias], getPrimaryKey(This(o), useAlias))

AliasToColumnName(o, aliasColumn) ==
    Reads("aliasToColumnName", o, [aliasColumn |-> aliasColumn],
          aliasToColumnName(This(o), aliasColumn))

SqlCreateTable(o) == Reads("sqlCreateTable", o, <<>>, sqlCreateTable(This(o)))

SqlCreateEnumConstraints(o) ==
    Reads("sqlCreateEnumConstraints", o, <<>>, sqlCreateEnumConstraints(This(o)))

SqlCreateTableConstraints(o) ==
    Reads("sqlCreateTableConstraints", o, <<>>, sqlCreateTableConstraints(This(o)))

SqlTableDrop(o) == Reads("sqlTableDrop", o, <<>>, sqlTableDrop(This(o)))

SqlSelect(o, useLabels, filter) ==
    Reads("sqlSelect", o, [useLabels |-> useLabels, filter |-> filter],
          sqlSelect(This(o), useLabels, filter))

SqlInsert(o, data) == Reads("sqlInsert", o, [data |-> data], sqlInsert(This(o), data))

SqlUpdate(o, data) == Reads("sqlUpdate", o, [data |-> data], sqlUpdate(This(o), data))

SqlDelete(o, filter) ==
    Reads("sqlDelete", o, [filter |-> filter], sqlDelete(This(o), filter))

Objs == 1..Len(objs)

Next ==
    \/ \E ta \in SpecTableArgs, c \in {0} \cup callerCols, k \in {0} \cup callerCons :
           Construct(ta[1], ta[2], c, k)
    \/ \E o \in Objs, c \in SpecColumns : addColumn(o, <<c>>)
    \/ \E o \in Objs, r \in callerCols : addColumn(o, colHeap[r])
    \/ \E o \in Objs, k \in SpecConstraints : addConstraint(o, <<k>>)
    \/ \E o \in Objs, r \in callerCons : addConstraint(o, conHeap[r])
    \/ \E o \in Objs : GetColumnNames(o, TRUE)
    \/ \E o \in Objs : SqlCreateTableConstraints(o)

Spec == Init /\ [][Next]_vars

(***************************************************************************)
(* Specifications of the generation methods: one descriptor, constructed   *)
(* from a caller's array of columns, and every call of the methods named.  *)
(***************************************************************************)
InitOne(tableArgs, columnSet) ==
    /\ \E ta \in tableArgs, cols \in SeqsUpTo(columnSet, MaxCols) :
           /\ colHeap = <<cols>>
           /\ objs = <<SchemaNew(ta[1], ta[2], 1, 1)>>
    /\ conHeap = << <<>> >>
    /\ callerCols = {1}
    /\ callerCons = {}
    /\ call = Call("constructor", 1, <<>>, 1)

\* Inputs of SpecDML.
DmlColumns == {ColId, ColName, ColMtId, ColStatus}

\* <<tableName, alias argument>>: the alias given, defaulted and upper-case.
DmlTableArgs ==
    { <<"MyTable", Str("mt")>>, <<"MyTable", Undefined>>, <<"Tbl", Str("MT")>> }

DataKeys == {"id", "name", "status", "mt_id", "mt_name"}

\* The keys a data object may only inherit.
InheritedKeys == {"name", "mt_name"}

\* Data objects as [own, proto]: every set of own keys without a prototype,
\* and every set of the other keys with InheritedKeys on the prototype.
DataObjects ==
    [own : SUBSET DataKeys, proto : {{}}]
        \cup [own : SUBSET (DataKeys \ InheritedKeys), proto : {InheritedKeys}]

InitDML == InitOne(DmlTableArgs, DmlColumns)

NextDML ==
    \/ \E data \in DataObjects : SqlInsert(1, data)
    \/ \E data \in DataObjects : SqlUpdate(1, data)

SpecDML == InitDML /\ [][NextDML]_vars

\* Inputs of SpecWhere.
WhereColumns == {ColStatus}

NullOperators ==
    {Undefined, Str(""), Str("="), Str("<"), Str("is not"), Str("IS NOT"), Str("~~")}

ValueOperators == {Undefined, Str(""), Str("LIKE"), Str("IS NOT")}

FilterValues == {Num(5), Num(-1), Bool(TRUE), Bool(FALSE), Str("O'Brien")}

ColumnRefs == {<<FALSE, "", "id">>, <<TRUE, "mt_id", "">>, <<TRUE, "name", "">>}

SingleFilters ==
    {Filter(r[1], r[2], r[3], op, Null) : r \in ColumnRefs, op \in NullOperators}
        \cup {Filter(FALSE, "", "id", op, v) : op \in ValueOperators, v \in FilterValues}

ListFilters ==
    {Filter(FALSE, "", "id", Undefined, Num(5)),
     Filter(TRUE, "mt_name", "", Str("LIKE"), Str("O'Brien"))}

\* The filter argument: absent, one filter, or an array of filters.
FilterArgs ==
    {[t |-> "undefined", items |-> <<>>]}
        \cup {[t |-> "object", items |-> <<f>>] : f \in SingleFilters}
        \cup {[t |-> "array", items |-> fs] : fs \in SeqsUpTo(ListFilters, MaxFilters)}

InitWhere == InitOne(TableArgs, WhereColumns)

NextWhere ==
    \/ \E useLabels \in BOOLEAN, filter \in FilterArgs : SqlSelect(1, useLabels, filter)
    \/ \E filter \in FilterArgs : SqlDelete(1, filter)

SpecWhere == InitWhere /\ [][NextWhere]_vars

\* Inputs of SpecFields.
FieldColumns == {ColId, ColName, ColStatus, ColKind, ColMtId, ColFlag}

AliasColumnInputs == {"name", "mt", "mt_", "x_id", "MT_id", "mt_mt_"}

FieldFilterArgs ==
    {[t |-> "undefined", items |-> <<>>],
     [t |-> "object", items |-> <<Filter(FALSE, "", "name", Str("LIKE"), Str("O'Brien"))>>]}

Range(f) == {f[i] : i \in DOMAIN f}

InitFields == InitOne(TableArgs, FieldColumns)

NextFields ==
    \/ GetAlias(1)
    \/ \E useSql \in BOOLEAN : GetTableName(1, useSql)
    \/ \E includePrimary \in BOOLEAN : GetColumnAliases(1, includePrimary)
    \/ \E includePrimary \in BOOLEAN : GetColumnNames(1, includePrimary)
    \/ \E includePrimary \in BOOLEAN, useLabels \in BOOLEAN :
           GetColumnFields(1, includePrimary, useLabels)
    \/ \E useAlias \in BOOLEAN : GetPrimaryKey(1, useAlias)
    \/ \E aliasColumn \in AliasColumnInputs \cup Range(getColumnAliases(This(1), TRUE)) :
           AliasToColumnName(1, aliasColumn)
    \/ SqlCreateTable(1)
    \/ SqlCreateEnumConstraints(1)
    \/ SqlTableDrop(1)
    \/ \E filter \in FieldFilterArgs : SqlSelect(1, TRUE, filter)

SpecFields == InitFields /\ [][NextFields]_vars

(***************************************************************************)
(* Helpers of the properties                                               *)
(***************************************************************************)
\* The strings of a sequence, each followed by sep except the last.
RECURSIVE Separated(_, _)
Separated(strs, sep) ==
    IF strs = <<>> THEN ""
    ELSE LET n == Len(strs)
         IN  Separated(SubSeq(strs, 1, n - 1), sep)
                 \o (IF n > 1 THEN sep ELSE "") \o strs[n]

\* The elements of arr at the indices in idx, in index order.
RECURSIVE Picked(_, _)
Picked(arr, idx) ==
    IF idx = {} THEN <<>>
    ELSE LET m == CHOOSE i \in idx : \A j \in idx : j <= i
         IN  Append(Picked(arr, idx \ {m}), arr[m])

Contains(str, sub) ==
    \E i \in 1..(Len(str) - Len(sub) + 1) : SubSeq(str, i, i + Len(sub) - 1) = sub

EndsWith(str, suffix) ==
    Len(str) >= Len(suffix) /\ SubSeq(str, Len(str) - Len(suffix) + 1, Len(str)) = suffix

IsPrefix(p, q) == Len(p) <= Len(q) /\ SubSeq(q, 1, Len(p)) = p

ColumnsOf(o) == colHeap[objs[o].columns]

ConstraintsOf(o) == conHeap[objs[o].constraints]

LowerTable(o) == toLowerCase(objs[o].tableName)

(***************************************************************************)
(* C1: sqlInsert(data) is "" exactly when no column's alias-key            *)
(* <alias>_<name> is an own key of data; otherwise it is                   *)
(* INSERT INTO <lowercased table> AS <alias> (<cols>) VALUES (<params>)    *)
(* listing <alias>.<name> and $<alias>_<name>, in declaration order, for   *)
(* exactly the columns (primary keys included) whose alias-key is an own   *)
(* key of data.  A bare column name in data selects nothing.               *)
(***************************************************************************)
InsertMatched(o, data) ==
    {i \in 1..Len(ColumnsOf(o)) :
        (objs[o].alias \o "_" \o ColumnsOf(o)[i].name) \in data.own}

C1_SqlInsert ==
    call.op = "sqlInsert" =>
        LET o == call.self
            a == objs[o].alias
            cols == Picked(ColumnsOf(o), InsertMatched(o, call.arg.data))
            names == [i \in 1..Len(cols) |-> a \o "." \o cols[i].name]
            params == [i \in 1..Len(cols) |-> "$" \o a \o "_" \o cols[i].name]
        IN  /\ (call.ret = "") <=> (InsertMatched(o, call.arg.data) = {})
            /\ InsertMatched(o, call.arg.data) # {} =>
                   call.ret = "INSERT INTO " \o LowerTable(o) \o " AS " \o a \o " ("
                                  \o Separated(names, ", ") \o ") VALUES ("
                                  \o Separated(params, ", ") \o ")"

\* The spec's example: alias mt, columns [id (primary), name], data {mt_name},
\* with the bare names id and name present in data as well.
C1_Witness ==
    /\ call.op = "sqlInsert"
    /\ ColumnsOf(1) = <<ColId, ColName>>
    /\ call.arg.data.own = {"mt_name", "id", "name"}
    /\ call.arg.data.proto = {}
    /\ call.ret = "INSERT INTO mytable AS mt (mt.name) VALUES ($mt_name)"

(***************************************************************************)
(* C2: sqlUpdate(data) is UPDATE <lowercased table> AS <alias> SET         *)
(* <assignments> WHERE <pk> = $<pkAlias>: the assignments are              *)
(* <alias>.<name> = $<alias>_<name>, in declaration order, for exactly the *)
(* columns not marked primary key whose bare name is an own key of data;   *)
(* the WHERE part is always there and names the first primary-key column,  *)
(* or reads "null = $null" when no column is marked primary key.           *)
(***************************************************************************)
UpdateMatched(o, data) ==
    {i \in 1..Len(ColumnsOf(o)) :
        ColumnsOf(o)[i].name \in data.own /\ ~ColumnsOf(o)[i].primaryKey}

PrimaryKeys(o) == {i \in 1..Len(ColumnsOf(o)) : ColumnsOf(o)[i].primaryKey}

C2_SqlUpdate ==
    call.op = "sqlUpdate" =>
        LET o == call.self
            a == objs[o].alias
            cols == Picked(ColumnsOf(o), UpdateMatched(o, call.arg.data))
            sets == [i \in 1..Len(cols) |->
                        a \o "." \o cols[i].name \o " = $" \o a \o "_" \o cols[i].name]
            pk == Picked(ColumnsOf(o), PrimaryKeys(o))
            where == IF pk = <<>> THEN "null = $null"
                     ELSE a \o "." \o pk[1].name \o " = $" \o a \o "_" \o pk[1].name
        IN  call.ret = "UPDATE " \o LowerTable(o) \o " AS " \o a \o " SET "
                           \o Separated(sets, ", ") \o " WHERE " \o where

\* The spec's example, with the primary key's name present in data as well.
C2_Witness ==
    /\ call.op = "sqlUpdate"
    /\ ColumnsOf(1) = <<ColId, ColName>>
    /\ call.arg.data.own = {"id", "name"}
    /\ call.ret = "UPDATE mytable AS mt SET mt.name = $mt_name WHERE mt.id = $mt_id"

(***************************************************************************)
(* Where-clauses                                                           *)
(***************************************************************************)
\* The statement up to its where-clause.
StatementHead(c) ==
    IF c.op = "sqlDelete"
    THEN "DELETE FROM " \o LowerTable(c.self) \o " AS " \o objs[c.self].alias
    ELSE "SELECT "
             \o Separated(getColumnFields(This(c.self), TRUE, c.arg.useLabels), ", ")
             \o " FROM " \o LowerTable(c.self) \o " AS " \o objs[c.self].alias

\* str with every single quote doubled, between single quotes.
RECURSIVE QuotesDoubled(_)
QuotesDoubled(str) ==
    IF str = "" THEN ""
    ELSE LET n == Len(str)
             last == SubSeq(str, n, n)
         IN  QuotesDoubled(SubSeq(str, 1, n - 1)) \o (IF last = "'" THEN "''" ELSE last)

SqlQuoted(str) == "'" \o QuotesDoubled(str) \o "'"

FilterColRef(o, f) ==
    objs[o].alias \o "." \o (IF f.hasAlias THEN aliasToColumnName(This(o), f.alias)
                             ELSE f.column)

FilterLiteral(v) ==
    CASE v.t = "number" -> IntToString(v.n)
      [] v.t = "boolean" -> (IF v.b THEN "TRUE" ELSE "FALSE")
      [] OTHER -> SqlQuoted(v.s)

(***************************************************************************)
(* C3: the where-clause appended by sqlSelect and sqlDelete is "" when     *)
(* there is no filter to apply (the argument is absent or an empty list),  *)
(* and otherwise " WHERE " followed by one condition per filter, in list   *)
(* order, joined by " AND "; no statement ends in " WHERE ".               *)
(***************************************************************************)
C3_WhereClause ==
    call.op \in {"sqlSelect", "sqlDelete"} =>
        LET o == call.self
            fs == call.arg.filter.items
            conds == [i \in 1..Len(fs) |-> whereCondition(This(o), fs[i])]
        IN  /\ call.ret = StatementHead(call)
                              \o (IF Len(fs) = 0 THEN ""
                                  ELSE " WHERE " \o Separated(conds, " AND "))
            /\ ~EndsWith(call.ret, " WHERE ")

(***************************************************************************)
(* C4 as claimed: a filter whose value is null renders <alias>.<col> IS    *)
(* NOT NULL when its operator is IS NOT in any letter case and <alias>.    *)
(* <col> IS NULL otherwise; a filter whose value is not null renders its   *)
(* operator verbatim ("=" when the operator is absent) before the literal: *)
(* numbers as they are, booleans TRUE or FALSE, strings quoted.            *)
(***************************************************************************)
ClaimedCondition(o, f) ==
    IF f.value.t = "null"
    THEN FilterColRef(o, f)
             \o (IF f.operator.t = "string" /\ toLowerCase(f.operator.s) = "is not"
                 THEN " IS NOT NULL" ELSE " IS NULL")
    ELSE FilterColRef(o, f) \o " "
             \o (IF f.operator.t = "undefined" THEN "=" ELSE f.operator.s)
             \o " " \o FilterLiteral(f.value)

C4_Claimed ==
    (call.op \in {"sqlSelect", "sqlDelete"} /\ Len(call.arg.filter.items) > 0) =>
        LET fs == call.arg.filter.items
        IN  call.ret = StatementHead(call) \o " WHERE "
                           \o Separated([i \in 1..Len(fs) |->
                                            ClaimedCondition(call.self, fs[i])], " AND ")

(***************************************************************************)
(* C4 as amended: as claimed, except that an operator that is the empty    *)
(* string counts as absent: "=" is rendered in its place.                  *)
(***************************************************************************)
AmendedCondition(o, f) ==
    IF f.value.t = "null"
    THEN FilterColRef(o, f)
             \o (IF f.operator.t = "string" /\ toLowerCase(f.operator.s) = "is not"
                 THEN " IS NOT NULL" ELSE " IS NULL")
    ELSE FilterColRef(o, f) \o " "
             \o (IF f.operator.t = "undefined" \/ f.operator.s = "" THEN "="
                 ELSE f.operator.s)
             \o " " \o FilterLiteral(f.value)

C4_Conditions ==
    (call.op \in {"sqlSelect", "sqlDelete"} /\ Len(call.arg.filter.items) > 0) =>
        LET fs == call.arg.filter.items
        IN  call.ret = StatementHead(call) \o " WHERE "
                           \o Separated([i \in 1..Len(fs) |->
                                            AmendedCondition(call.self, fs[i])], " AND ")

\* A null-valued filter by alias whose operator is "is not" in lower case.
C4_Witness ==
    /\ call.op = "sqlDelete"
    /\ call.arg.filter = [t |-> "object",
                          items |-> <<Filter(TRUE, "mt_id", "", Str("is not"), Null)>>]
    /\ call.ret = "DELETE FROM mytable AS mt WHERE mt.id IS NOT NULL"

(***************************************************************************)
(* Column projections                                                      *)
(***************************************************************************)
NonPrimary(o) == {i \in 1..Len(ColumnsOf(o)) : ~ColumnsOf(o)[i].primaryKey}

AllColumns(o) == 1..Len(ColumnsOf(o))

\* The entry the call c generates from column col.
EntryOf(c, col) ==
    CASE c.op = "getColumnAliases" -> objs[c.self].alias \o "_" \o col.name
      [] c.op = "getColumnNames" -> objs[c.self].alias \o "." \o col.name
      [] OTHER -> columnField(This(c.self), col, c.arg.useLabels)

IsProjection(c) == c.op \in {"getColumnAliases", "getColumnNames", "getColumnFields"}

(***************************************************************************)
(* C7 as claimed: with includePrimary = false, no entry of                 *)
(* getColumnFields, getColumnNames or getColumnAliases is generated from a *)
(* column that is not marked primary key.                                  *)
(***************************************************************************)
C7_Claimed ==
    (IsProjection(call) /\ ~call.arg.includePrimary) =>
        \A i \in NonPrimary(call.self) :
            EntryOf(call, ColumnsOf(call.self)[i]) \notin Range(call.ret)

(***************************************************************************)
(* C7 as amended: with includePrimary = false it is the columns marked     *)
(* primary key that are absent: the output holds exactly the entries of    *)
(* the columns not marked primary key, in declaration order.               *)
(***************************************************************************)
C7_PrimaryAbsent ==
    (IsProjection(call) /\ ~call.arg.includePrimary) =>
        LET kept == Picked(ColumnsOf(call.self), NonPrimary(call.self))
        IN  /\ Len(call.ret) = Len(kept)
            /\ \A k \in 1..Len(kept) : call.ret[k] = EntryOf(call, kept[k])

\* A primary key, then a plain column: only the second is listed.
C7_Witness ==
    /\ call.op = "getColumnAliases"
    /\ ~call.arg.includePrimary
    /\ ColumnsOf(1) = <<ColId, ColName>>
    /\ call.ret = <<"mt_name">>

(***************************************************************************)
(* C8: aliasToColumnName gives back the bare name of the i-th column when  *)
(* given the i-th entry of getColumnAliases(true), also for a name that    *)
(* itself begins with <alias>_, and gives back its input when the input    *)
(* does not start with <alias>_.                                           *)
(***************************************************************************)
C8_RoundTrip ==
    call.op = "aliasToColumnName" =>
        LET o == call.self
            aliases == getColumnAliases(This(o), TRUE)
        IN  /\ Len(aliases) = Len(ColumnsOf(o))
            /\ \A i \in 1..Len(aliases) :
                   call.arg.aliasColumn = aliases[i] => call.ret = ColumnsOf(o)[i].name
            /\ ~IsPrefix(objs[o].alias \o "_", call.arg.aliasColumn) =>
                   call.ret = call.arg.aliasColumn

\* The alias of the column named mt_id under the alias mt.
C8_Witness ==
    /\ call.op = "aliasToColumnName"
    /\ objs[1].alias = "mt"
    /\ ColumnsOf(1) = <<ColId, ColMtId>>
    /\ call.arg.aliasColumn = "mt_mt_id"
    /\ call.ret = "mt_id"

(***************************************************************************)
(* getColumnFields                                                         *)
(***************************************************************************)
\* The text between the quotes after THEN: the label with its single quotes
\* doubled, or for an absent or empty label Value "<value>" with the double
\* quotes of the value preceded by a backslash.
RECURSIVE BackslashQuotes(_)
BackslashQuotes(str) ==
    IF str = "" THEN ""
    ELSE LET n == Len(str)
             last == SubSeq(str, n, n)
         IN  BackslashQuotes(SubSeq(str, 1, n - 1))
                 \o (IF last = "\"" THEN "\\\"" ELSE last)

ValueText(v) == IF v.t = "number" THEN IntToString(v.n) ELSE v.s

LabelText(ev) ==
    IF ev.label.t = "string" /\ ev.label.s # "" THEN QuotesDoubled(ev.label.s)
    ELSE "Value \"" \o BackslashQuotes(ValueText(ev.value)) \o "\""

WhenClause(colRef, ev) ==
    "WHEN " \o colRef \o " = "
        \o (IF ev.value.t = "number" THEN IntToString(ev.value.n)
            ELSE SqlQuoted(ev.value.s))
        \o " THEN '" \o LabelText(ev) \o "'"

CaseBody(a, col) ==
    "CASE "
        \o Separated([i \in 1..Len(col.enumValues) |->
                         WhenClause(a \o "." \o col.name, col.enumValues[i])], " ")
        \o " ELSE 'Value \"' || " \o a \o "." \o col.name \o " || '\"' END"

PlainField(a, col) == a \o "." \o col.name \o " AS \"" \o a \o "_" \o col.name \o "\""

KeptColumns(c) ==
    Picked(ColumnsOf(c.self),
           IF c.arg.includePrimary THEN AllColumns(c.self) ELSE NonPrimary(c.self))

(***************************************************************************)
(* C9 as claimed: getColumnFields gives one expression per column passing  *)
(* the includePrimary filter, in declaration order: for a column with      *)
(* enumValues and useLabels = true, CASE WHEN ... END AS                   *)
(* "<alias>_<name>_label", so that END AS "<alias>_<name>_label" occurs in *)
(* it, and for every other column <alias>.<name> AS "<alias>_<name>".      *)
(***************************************************************************)
C9_Claimed ==
    call.op = "getColumnFields" =>
        LET a == objs[call.self].alias
            kept == KeptColumns(call)
        IN  /\ Len(call.ret) = Len(kept)
            /\ \A k \in 1..Len(kept) :
                   IF call.arg.useLabels /\ kept[k].hasEnumValues
                   THEN /\ call.ret[k] = CaseBody(a, kept[k]) \o " AS \"" \o a \o "_"
                                             \o kept[k].name \o "_label\""
                        /\ Contains(call.ret[k],
                                    "END AS \"" \o a \o "_" \o kept[k].name \o "_label\"")
                   ELSE call.ret[k] = PlainField(a, kept[k])

(***************************************************************************)
(* C9 as amended: as claimed, except that the CASE expression stands in    *)
(* parentheses: (CASE WHEN ... END) AS "<alias>_<name>_label", so that it  *)
(* is END) AS "<alias>_<name>_label" that ends the field; the WHEN clauses *)
(* are joined by single spaces, and an absent or empty label reads         *)
(* Value "<value>" with the double quotes of the value preceded by a       *)
(* backslash.                                                              *)
(***************************************************************************)
C9_Fields ==
    call.op = "getColumnFields" =>
        LET a == objs[call.self].alias
            kept == KeptColumns(call)
        IN  /\ Len(call.ret) = Len(kept)
            /\ \A k \in 1..Len(kept) :
                   IF call.arg.useLabels /\ kept[k].hasEnumValues
                   THEN /\ call.ret[k] = "(" \o CaseBody(a, kept[k]) \o ") AS \"" \o a
                                             \o "_" \o kept[k].name \o "_label\""
                        /\ EndsWith(call.ret[k],
                                    "END) AS \"" \o a \o "_" \o kept[k].name \o "_label\"")
                   ELSE call.ret[k] = PlainField(a, kept[k])

\* The spec's example: status with the entries 0 -> Off and 1 -> On.
C9_Witness ==
    /\ call.op = "getColumnFields"
    /\ call.arg.useLabels
    /\ ColumnsOf(1) = <<ColId, ColStatus>>
    /\ call.ret = << "mt.id AS \"mt_id\"",
                     "(CASE WHEN mt.status = 0 THEN 'Off' WHEN mt.status = 1 THEN 'On' ELSE 'Value \"' || mt.status || '\"' END) AS \"mt_status_label\"" >>

(***************************************************************************)
(* C6: wherever a string-valued default value, enum value, enum label or   *)
(* filter value is embedded in the text of sqlCreateTable,                 *)
(* sqlCreateEnumConstraints, getColumnFields / sqlSelect with labels and   *)
(* the where-clause, it stands between single quotes with each of its      *)
(* single quotes doubled; the label Value "<value>" generated for an entry *)
(* without a label is embedded that way too.                               *)
(***************************************************************************)
\* The label of an entry before it is embedded.
RawLabel(ev) ==
    IF ev.label.t = "string" /\ ev.label.s # "" THEN ev.label.s
    ELSE "Value \"" \o BackslashQuotes(ValueText(ev.value)) \o "\""

LabelsEscaped(field, col) ==
    \A i \in 1..Len(col.enumValues) :
        /\ Contains(field, " THEN " \o SqlQuoted(RawLabel(col.enumValues[i])))
        /\ col.enumValues[i].value.t = "string" =>
               Contains(field, " = " \o SqlQuoted(col.enumValues[i].value.s) \o " THEN ")

EnumColumns(o) == {i \in 1..Len(ColumnsOf(o)) : ColumnsOf(o)[i].hasEnumValues}

C6_QuotesDoubled ==
    LET o == call.self
    IN  /\ call.op = "sqlCreateTable" =>
               \A i \in AllColumns(o) :
                   ColumnsOf(o)[i].defaultValue.t = "string" =>
                       Contains(call.ret,
                                " DEFAULT " \o SqlQuoted(ColumnsOf(o)[i].defaultValue.s))
        /\ call.op = "sqlCreateEnumConstraints" =>
               LET cols == Picked(ColumnsOf(o), EnumColumns(o))
               IN  \A k \in 1..Len(cols) : \A i \in 1..Len(cols[k].enumValues) :
                       cols[k].enumValues[i].value.t = "string" =>
                           Contains(call.ret[k], SqlQuoted(cols[k].enumValues[i].value.s))
        /\ (call.op = "getColumnFields" /\ call.arg.useLabels) =>
               LET kept == KeptColumns(call)
               IN  \A k \in 1..Len(kept) :
                       kept[k].hasEnumValues => LabelsEscaped(call.ret[k], kept[k])
        /\ (call.op = "sqlSelect" /\ call.arg.useLabels) =>
               \A i \in EnumColumns(o) : LabelsEscaped(call.ret, ColumnsOf(o)[i])
        /\ call.op \in {"sqlSelect", "sqlDelete"} =>
               \A i \in 1..Len(call.arg.filter.items) :
                   call.arg.filter.items[i].value.t = "string" =>
                       Contains(call.ret, " " \o SqlQuoted(call.arg.filter.items[i].value.s))

(***************************************************************************)
(* C5: no two descriptors share state: an addColumn or addConstraint call  *)
(* on one descriptor leaves the column list and the constraint list of     *)
(* every other descriptor as they were, however the descriptors were       *)
(* constructed, and leaves every array the caller holds as it was.         *)
(***************************************************************************)
\* The descriptor o and its lists after the step.
ColumnsAfter(o) == colHeap'[objs'[o].columns]

ConstraintsAfter(o) == conHeap'[objs'[o].constraints]

ThisAfter(o) ==
    [tableName |-> objs'[o].tableName, alias |-> objs'[o].alias,
     columns |-> ColumnsAfter(o), constraints |-> ConstraintsAfter(o)]

C5_NoSharedState ==
    [][call'.op \in {"addColumn", "addConstraint"} =>
           /\ \A b \in 1..Len(objs) :
                  b # call'.self =>
                      /\ ColumnsAfter(b) = ColumnsOf(b)
                      /\ ConstraintsAfter(b) = ConstraintsOf(b)
           /\ \A r \in callerCols : colHeap'[r] = colHeap[r]
           /\ \A r \in callerCons : conHeap'[r] = conHeap[r]]_vars

(***************************************************************************)
(* C10: the lists of a descriptor are append-only and change only through  *)
(* its own append calls: addColumn on it appends the given columns, in     *)
(* order, to its column list and addConstraint the given foreign keys to   *)
(* its constraint list, each returning the same instance; every other step *)
(* leaves its lists, table name and alias as they were, so that its column *)
(* list is always the constructor's columns followed by the columns added  *)
(* to it, and getColumnNames(true) and sqlCreateTableConstraints() taken   *)
(* before a step are prefixes of those taken after it.                     *)
(***************************************************************************)
C10_AppendOnly ==
    [][\A o \in 1..Len(objs) :
           /\ ColumnsAfter(o) = IF call'.op = "addColumn" /\ call'.self = o
                                THEN ColumnsOf(o) \o call'.arg ELSE ColumnsOf(o)
           /\ ConstraintsAfter(o) = IF call'.op = "addConstraint" /\ call'.self = o
                                    THEN ConstraintsOf(o) \o call'.arg
                                    ELSE ConstraintsOf(o)
           /\ objs'[o].tableName = objs[o].tableName
           /\ objs'[o].alias = objs[o].alias
           /\ (call'.op \in {"addColumn", "addConstraint"} /\ call'.self = o) =>
                  call'.ret = o
           /\ IsPrefix(getColumnNames(This(o), TRUE), getColumnNames(ThisAfter(o), TRUE))
           /\ IsPrefix(sqlCreateTableConstraints(This(o)),
                       sqlCreateTableConstraints(ThisAfter(o)))]_vars

====
